---- MODULE Spec2Model ----
(***************************************************************************)
(* Model of montasim/email-service: the POST /send-email pipeline          *)
(* (route dispatch, controller, send-email use case, transport outcome,    *)
(* response) and the request schema (createStringField, emailField, EMAIL, *)
(* the strict subject+email object schema).                                *)
(*                                                                         *)
(* Strings that the validators inspect are sequences of one-character      *)
(* strings, so that length, trimming, substring search and the regular     *)
(* expressions are computed character by character.  A JavaScript value    *)
(* is a record [t, v]: t is its type tag, v its characters.                *)
(***************************************************************************)
EXTENDS Integers, Sequences, FiniteSets, TLC

VARIABLES pc, method, body, url, outcome, envelope, response,
          outbox, logged, vbody, vfield, vschema

vars == <<pc, method, body, url, outcome, envelope, response,
          outbox, logged, vbody, vfield, vschema>>

-----------------------------------------------------------------------------
(* Bounds of the model.                                                    *)

\* Number of requests that may be in flight together.
NumReqs == 2

Reqs == 1..NumReqs

-----------------------------------------------------------------------------
(* Characters and character classes used by the regular expressions.       *)

Lower == {"a","b","c","d","e","f","g","h","i","j","k","l","m",
          "n","o","p","q","r","s","t","u","v","w","x","y","z"}
Upper == {"T","W","U"}
Digit == {"0","1","2","3","4","5","6","7","8","9"}
Space == {" "}

\* \w of a JavaScript regular expression
WordChar == Lower \cup Upper \cup Digit \cup {"_"}

IsWordAt(s, i) == i >= 1 /\ i <= Len(s) /\ s[i] \in WordChar

\* \b between positions i-1 and i (i in 1..Len+1)
Boundary(s, i) == IsWordAt(s, i - 1) # IsWordAt(s, i)

\* w occurs in s starting at position i
StartsAt(s, i, w) ==
    /\ i >= 1
    /\ i + Len(w) - 1 <= Len(s)
    /\ \A k \in 1..Len(w) : s[i + k - 1] = w[k]

\* String.prototype.includes
Contains(s, w) == \E i \in 1..Len(s) : StartsAt(s, i, w)

Sub(s, a, b) == IF a > b THEN <<>> ELSE SubSeq(s, a, b)

\* String.prototype.split on a one-character separator: the pieces as a
\* sequence of strings.
RECURSIVE Split(_, _)
Split(s, c) ==
    IF \A i \in 1..Len(s) : s[i] # c
    THEN <<s>>
    ELSE LET p == CHOOSE i \in 1..Len(s) :
                      s[i] = c /\ \A j \in 1..(i - 1) : s[j] # c
         IN  <<Sub(s, 1, p - 1)>> \o Split(Sub(s, p + 1, Len(s)), c)

\* String.prototype.trim
RECURSIVE TrimLeft(_)
TrimLeft(s) ==
    IF s # <<>> /\ Head(s) \in Space THEN TrimLeft(Tail(s)) ELSE s

RECURSIVE TrimRight(_)
TrimRight(s) ==
    IF s # <<>> /\ s[Len(s)] \in Space
    THEN TrimRight(Sub(s, 1, Len(s) - 1))
    ELSE s

Trim(s) == TrimRight(TrimLeft(s))

\* String.prototype.toLowerCase on the characters of the model
LowerOf(c) == CASE c = "T" -> "t" [] c = "W" -> "w" [] c = "U" -> "u"
                [] OTHER -> c

ToLower(s) == [i \in 1..Len(s) |-> LowerOf(s[i])]

-----------------------------------------------------------------------------
(* JavaScript values carried by a request body.                            *)

Str(s)    == [t |-> "string", v |-> s]
Num(s)    == [t |-> "number", v |-> s]
Undefined == [t |-> "undefined", v |-> <<>>]

-----------------------------------------------------------------------------
(* Length limits of the two fields.  constants.lengths and                 *)
(* sendEmailConstants.lengths are defined in files that are not part of    *)
(* the sources at hand; the values below are representative limits, small  *)
(* enough for the sample strings to fall on both sides of each of them.    *)

EMAIL_MIN == 8
EMAIL_MAX == 24
SUBJECT_MIN == 3
SUBJECT_MAX == 13

-----------------------------------------------------------------------------
(* createStringField: Joi.string().trim().min(min).max(max).              *)
(* x is the JavaScript value validated; convert is Joi's convert           *)
(* preference (TRUE by default, FALSE under .strict()).  The result is the *)
(* set of Joi error codes raised (abortEarly: false); the value is         *)
(* accepted when it is empty.                                              *)

\* the value the rules see: trimmed when Joi may convert, as given otherwise
Coerced(x, convert) == IF convert THEN Trim(x.v) ELSE x.v

createStringField(min, max, x, convert) ==
    IF x.t = "undefined" THEN {}
    ELSE IF x.t # "string" THEN {"string.base"}
    ELSE LET val == Coerced(x, convert)
         IN  IF val = <<>> THEN {"string.empty"}
             ELSE (IF val # Trim(val) THEN {"string.trim"} ELSE {})
                  \cup (IF Len(val) < min THEN {"string.min"} ELSE {})
                  \cup (IF Len(val) > max THEN {"string.max"} ELSE {})

-----------------------------------------------------------------------------
(* .email({ minDomainSegments: 2, tlds: { allow: true } }): Joi's address  *)
(* check.  One "@", a dot-separated local part of atext characters, a      *)
(* domain of at least two labels whose last label is a registered          *)
(* top-level domain.                                                       *)

\* [\w!#$%&'*+\-/=?^{|}~] (and the grave accent, which no sample uses)
Atext == WordChar \cup {"!","#","$","%","&","'","*","+","-","/","=","?",
                        "^","{","|","}","~"}

AlNum == Lower \cup Upper \cup Digit

\* the top-level domains of the registry that the sample addresses use
IanaTlds == { <<"c","o","m">>, <<"o","r","g">>, <<"n","e","t">> }

minDomainSegments == 2

\* /^[a-zA-Z0-9](?:[a-zA-Z0-9\-]*[a-zA-Z0-9])?$/
DomainSegment(g) ==
    /\ g # <<>>
    /\ g[1] \in AlNum
    /\ g[Len(g)] \in AlNum
    /\ \A i \in 1..Len(g) : g[i] \in AlNum \cup {"-"}

\* /^[a-zA-Z](?:[a-zA-Z0-9\-]*[a-zA-Z0-9])?$/
TldSegment(g) ==
    /\ g # <<>>
    /\ g[1] \in Lower \cup Upper
    /\ g[Len(g)] \in AlNum
    /\ \A i \in 1..Len(g) : g[i] \in AlNum \cup {"-"}

JoiDomain(d) ==
    LET segs == Split(d, ".")
        n    == Len(segs)
    IN  /\ d # <<>>
        /\ n >= minDomainSegments
        /\ ToLower(segs[n]) \in IanaTlds
        /\ \A i \in 1..(n - 1) : DomainSegment(segs[i])
        /\ TldSegment(segs[n])

JoiLocal(l) ==
    LET segs == Split(l, ".")
    IN  /\ l # <<>>
        /\ \A i \in 1..Len(segs) :
              /\ segs[i] # <<>>
              /\ \A k \in 1..Len(segs[i]) : segs[i][k] \in Atext

JoiEmail(s) ==
    LET parts == Split(s, "@")
    IN  /\ Len(parts) = 2
        /\ JoiLocal(parts[1])
        /\ JoiDomain(parts[2])

-----------------------------------------------------------------------------
(* /^((?!tempmail|mailinator|yopmail).)*$/ : no position of the string     *)
(* starts one of the three words.                                          *)

tempmail   == <<"t","e","m","p","m","a","i","l">>
mailinator == <<"m","a","i","l","i","n","a","t","o","r">>
yopmail    == <<"y","o","p","m","a","i","l">>

DenyWords == {tempmail, mailinator, yopmail}

\* faulty variant: the deny list applied to the domain only (the words are
\* searched after "@")
NoTempEmailDomainOnly(s) ==
    \A i \in 1..Len(s) : \A w \in DenyWords :
        StartsAt(s, i, w) => \A j \in i..Len(s) : s[j] # "@"

NoTempEmail(s) ==
    \A i \in 1..Len(s) : \A w \in DenyWords : ~ StartsAt(s, i, w)

-----------------------------------------------------------------------------
(* patterns.EMAIL                                                          *)

temp == <<"t","e","m","p">>

\* (?!.*\btemp\b)
NoTempWord(s) ==
    ~ \E i \in 1..Len(s) :
          StartsAt(s, i, temp) /\ Boundary(s, i) /\ Boundary(s, i + Len(temp))

\* [^<>()\[\]\\.,;:\s@"]
AtomChar(c) ==
    c \notin ({"<",">","(",")","[","]","\\",".",",",";",":","@","\""}
              \cup Space)

\* [^<>()\[\]\\.,;:\s@"]+(\.[^<>()\[\]\\.,;:\s@"]+)*
DotAtoms(l) ==
    LET segs == Split(l, ".")
    IN  \A i \in 1..Len(segs) :
            /\ segs[i] # <<>>
            /\ \A k \in 1..Len(segs[i]) : AtomChar(segs[i][k])

\* ".+"
Quoted(l) == Len(l) >= 3 /\ l[1] = "\"" /\ l[Len(l)] = "\""

\* \[[0-9]{1,3}\.[0-9]{1,3}\.[0-9]{1,3}\.[0-9]{1,3}]
IpLiteral(d) ==
    /\ Len(d) >= 2
    /\ d[1] = "[" /\ d[Len(d)] = "]"
    /\ LET segs == Split(Sub(d, 2, Len(d) - 1), ".")
       IN  /\ Len(segs) = 4
           /\ \A i \in 1..4 :
                 /\ Len(segs[i]) \in 1..3
                 /\ \A k \in 1..Len(segs[i]) : segs[i][k] \in Digit

\* ([a-zA-Z\-0-9]+\.)+[a-zA-Z]{2,}
HostName(d) ==
    LET segs == Split(d, ".")
        n    == Len(segs)
    IN  /\ n >= 2
        /\ \A i \in 1..(n - 1) :
              /\ segs[i] # <<>>
              /\ \A k \in 1..Len(segs[i]) : segs[i][k] \in AlNum \cup {"-"}
        /\ Len(segs[n]) >= 2
        /\ \A k \in 1..Len(segs[n]) : segs[n][k] \in Lower \cup Upper

EMAIL(s) ==
    /\ NoTempWord(s)
    /\ \E p \in 1..Len(s) :
          /\ s[p] = "@"
          /\ DotAtoms(Sub(s, 1, p - 1)) \/ Quoted(Sub(s, 1, p - 1))
          /\ IpLiteral(Sub(s, p + 1, Len(s))) \/ HostName(Sub(s, p + 1, Len(s)))

-----------------------------------------------------------------------------
(* emailField: createStringField(EMAIL_MIN, EMAIL_MAX).email(...)          *)
(*                 .regex(no-temp-email).pattern(patterns.EMAIL)           *)

emailRules(val) ==
    (IF ~ JoiEmail(val) THEN {"string.email"} ELSE {})
    \cup (IF ~ NoTempEmail(val) THEN {"string.pattern.name"} ELSE {})
    \cup (IF ~ EMAIL(val) THEN {"string.pattern.base"} ELSE {})

emailField(x, convert) ==
    createStringField(EMAIL_MIN, EMAIL_MAX, x, convert)
    \cup (IF x.t = "string" /\ Coerced(x, convert) # <<>>
          THEN emailRules(Coerced(x, convert))
          ELSE {})

-----------------------------------------------------------------------------
(* sendEmailSchema.sendEmail: Joi.object({subject, email}).strict() with   *)
(* both keys forked to required().  A body is a record of the values of    *)
(* its keys subject, email and extra (a key the schema does not declare);  *)
(* a key that is missing holds Undefined.                                  *)

\* field.required()
required(errs, x) == IF x.t = "undefined" THEN {"any.required"} ELSE errs

\* keys of the object that the schema does not declare
UnknownKeys(b) == IF b.extra.t # "undefined" THEN {"object.unknown"} ELSE {}

sendEmailSchemaBase(b) ==
    [subject |-> createStringField(SUBJECT_MIN, SUBJECT_MAX, b.subject, FALSE),
     email   |-> emailField(b.email, FALSE),
     unknown |-> UnknownKeys(b)]

\* faulty variant: the base schema, its keys not forked to required()
sendEmailSchemaOptional(b) ==
    LET base == sendEmailSchemaBase(b)
    IN  base.subject \cup base.email \cup base.unknown

sendEmailSchema(b) ==
    LET base == sendEmailSchemaBase(b)
    IN  required(base.subject, b.subject)
        \cup required(base.email, b.email)
        \cup base.unknown

-----------------------------------------------------------------------------
(* Sample strings from which the validated values are drawn.               *)

\* "user"
l_user == <<"u","s","e","r">>
\* "temp"
l_temp == <<"t","e","m","p">>
\* "yopmail"
l_yopmail == <<"y","o","p","m","a","i","l">>
\* "a.b"
l_dotted == <<"a",".","b">>
\* " user"
l_spaced == <<" ","u","s","e","r">>
\* "xtempmailx"
l_embedded == <<"x","t","e","m","p","m","a","i","l","x">>

\* "example.com"
d_example == <<"e","x","a","m","p","l","e",".","c","o","m">>
\* "tempmail.com"
d_tempmail == <<"t","e","m","p","m","a","i","l",".","c","o","m">>
\* "mailinator.org"
d_mailinator == <<"m","a","i","l","i","n","a","t","o","r",".","o","r","g">>
\* "Tempmail.com"
d_Tempmail == <<"T","e","m","p","m","a","i","l",".","c","o","m">>
\* "temp.com"
d_temp == <<"t","e","m","p",".","c","o","m">>
\* "example"
d_single == <<"e","x","a","m","p","l","e">>
\* "example.zz"
d_unlisted == <<"e","x","a","m","p","l","e",".","z","z">>
\* "[1.2.3.4]"
d_ip == <<"[","1",".","2",".","3",".","4","]">>

\* "not-an-email"
e_notAnEmail == <<"n","o","t","-","a","n","-","e","m","a","i","l">>
\* "a@b.com"
e_short == <<"a","@","b",".","c","o","m">>
\* "user@mail.example.example.com"
e_long == <<"u","s","e","r","@","m","a","i","l",".","e","x","a","m","p","l",
            "e",".","e","x","a","m","p","l","e",".","c","o","m">>
\* "a b"@example.com, the local part in double quotes
e_quoted == <<"\"","a"," ","b","\"","@","e","x","a","m","p","l","e",".",
              "c","o","m">>
\* "user@@example.com"
e_twoAts == <<"u","s","e","r","@","@","e","x","a","m","p","l","e",".",
              "c","o","m">>

\* "Weekly Update"
s_weeklyUpdate == <<"W","e","e","k","l","y"," ","U","p","d","a","t","e">>
\* "Wu"
s_short == <<"W","u">>
\* "Weekly Updates"
s_long == <<"W","e","e","k","l","y"," ","U","p","d","a","t","e","s">>
\* " Weekly"
s_spaced == <<" ","W","e","e","k","l","y">>

At(l, d) == l \o <<"@">> \o d

Locals  == {l_user, l_temp, l_yopmail, l_dotted, l_spaced, l_embedded}
Domains == {d_example, d_tempmail, d_mailinator, d_Tempmail, d_temp,
            d_single, d_unlisted, d_ip}

EmailStrings ==
    {At(l, d) : l \in Locals, d \in Domains}
    \cup {e_notAnEmail, e_short, e_long, e_quoted, e_twoAts, <<>>}

SubjectStrings == {s_weeklyUpdate, s_short, s_long, s_spaced, <<>>}

\* "user@example.com", "user@tempmail.com"
userAtExample  == At(l_user, d_example)
userAtTempmail == At(l_user, d_tempmail)

EmailValues   == {Str(e) : e \in EmailStrings} \cup {Undefined, Num(<<"4","2">>)}
SubjectValues == {Str(x) : x \in SubjectStrings} \cup {Undefined, Num(<<"4","2">>)}
ExtraValues   == {Undefined, Num(<<"1">>)}

\* a request body that is an object
Body(sub, em, ex) == [obj |-> TRUE, subject |-> sub, email |-> em, extra |-> ex]

\* no body at all: req.body is undefined
UndefinedBody ==
    [obj |-> FALSE, subject |-> Undefined, email |-> Undefined,
     extra |-> Undefined]

\* the bodies handed to the schema
ValBodies ==
    {Body(sub, em, ex) : sub \in SubjectValues, em \in EmailValues,
                         ex \in ExtraValues}

\* the bodies sent to the endpoint
ReqBodies ==
    { UndefinedBody,
      Body(Str(s_weeklyUpdate), Str(userAtExample), Undefined),
      Body(Str(s_weeklyUpdate), Str(e_notAnEmail), Undefined),
      Body(Undefined, Str(userAtTempmail), Num(<<"1">>)) }

-----------------------------------------------------------------------------
(* Optional properties of an object: present with a value, or absent.      *)

Some(x) == [has |-> TRUE, v |-> x]
None    == [has |-> FALSE, v |-> ""]

-----------------------------------------------------------------------------
(* httpStatus constants and the response envelope builders.                *)

CREATED == 201
INTERNAL_SERVER_ERROR == 500

\* sendResponse(data, message, status)
sendResponse(data, message, status) ==
    [status |-> status, message |-> message, data |-> Some(data),
     route |-> None]

\* errorResponse(message, status)
errorResponse(message, status) ==
    [status |-> status, message |-> message, data |-> None, route |-> None]

NoEnvelope == [status |-> 0, message |-> "", data |-> None, route |-> None]

-----------------------------------------------------------------------------
(* Content preparation and rendering: deterministic functions of the       *)
(* subject (a default shape when the subject is absent) that never throw.  *)

prepareEmailContent(subject, emailData) ==
    LET title == IF subject.t = "undefined" THEN Str(<<>>) ELSE subject
    IN  [pageTitle     |-> <<"pageTitle", title>>,
         preheaderText |-> <<"preheaderText", title>>,
         heroSection   |-> <<"heroSection", title>>,
         mainSection   |-> <<"mainSection", title>>,
         footerContent |-> <<"footerContent", title>>]

prepareEmail(pageTitle, preheaderText, heroSection, mainSection, footerContent) ==
    <<"html", pageTitle, preheaderText, heroSection, mainSection,
      footerContent>>

-----------------------------------------------------------------------------
(* Values a rejected promise or a throw can carry, and the outcomes of     *)
(* EmailService.sendEmail.                                                 *)

\* an Error with a message property
ErrorWith(m)  == [t |-> "Error", has |-> TRUE, message |-> m]
\* an object without a message property
ObjectNoMessage == [t |-> "object", has |-> FALSE, message |-> ""]
NullValue       == [t |-> "null", has |-> FALSE, message |-> ""]
UndefinedValue  == [t |-> "undefined", has |-> FALSE, message |-> ""]
NoError         == [t |-> "none", has |-> FALSE, message |-> ""]

\* the TypeErrors of reading a property of undefined or null
TypeErrorReadingEmail ==
    [t |-> "TypeError", has |-> TRUE,
     message |-> "Cannot read properties of undefined (reading 'email')"]
TypeErrorReadingMessage ==
    [t |-> "TypeError", has |-> TRUE,
     message |-> "Cannot read properties of null or undefined (reading 'message')"]

Nullish(e) == e.t \in {"null", "undefined"}

ThrownValues ==
    {ErrorWith("connection refused"), ErrorWith(""), ObjectNoMessage,
     NullValue, UndefinedValue}

DeliveryResults == {"<id-1>", "<id-2>"}

Resolved(res) == [kind |-> "resolved", result |-> res, error |-> NoError]
Rejected(e)   == [kind |-> "rejected", result |-> "", error |-> e]
NoOutcome     == [kind |-> "none", result |-> "", error |-> NoError]

Outcomes == {Resolved(d) : d \in DeliveryResults}
            \cup {Rejected(e) : e \in ThrownValues}

-----------------------------------------------------------------------------
(* The send-email use case: sendEmailService.sendEmail(emailData).         *)
(* A completion is how a call ends: it returns an envelope or throws.      *)

Return(env) == [kind |-> "return", envelope |-> env, error |-> NoError]
Throw(e)    == [kind |-> "throw", envelope |-> NoEnvelope, error |-> e]

\* `${error}`
ErrorString(error) ==
    CASE error.t \in {"Error", "TypeError"} ->
             IF error.message = "" THEN <<error.t>>
             ELSE <<error.t, ": ", error.message>>
      [] error.t = "object" -> <<"[object Object]">>
      [] OTHER -> <<error.t>>

\* faulty variant: the HTML of the first message ever rendered is kept at
\* module level and reused by later calls
MessageForCached(emailData) ==
    LET c == prepareEmailContent(emailData.subject, emailData)
        html == prepareEmail(c.pageTitle, c.preheaderText, c.heroSection,
                             c.mainSection, c.footerContent)
    IN  [to |-> emailData.email, subject |-> emailData.subject,
         html |-> IF \A q \in Reqs : outbox[q] = <<>> THEN html
                  ELSE outbox[CHOOSE q \in Reqs : outbox[q] # <<>>][1].html]

\* the message handed to EmailService.sendEmail: the recipient, the
\* subject, and the HTML rendered from the prepared content
MessageFor(emailData) ==
    LET c == prepareEmailContent(emailData.subject, emailData)
    IN  [to      |-> emailData.email,
         subject |-> emailData.subject,
         html    |-> prepareEmail(c.pageTitle, c.preheaderText, c.heroSection,
                                  c.mainSection, c.footerContent)]

\* faulty variant: the error's own message is never surfaced
sendEmail_catchFallbackOnly(error) ==
    [logs |-> << <<"Failed to end email: ">> \o ErrorString(error) >>,
     completion |->
        IF Nullish(error) THEN Throw(TypeErrorReadingMessage)
        ELSE Return(errorResponse("Failed to end email.",
                                  INTERNAL_SERVER_ERROR))]

\* the catch block: one log line, then the error envelope; error.message
\* is read from the caught value, which throws when that value is null or
\* undefined
sendEmail_catch(error) ==
    [logs |-> << <<"Failed to end email: ">> \o ErrorString(error) >>,
     completion |->
        IF Nullish(error) THEN Throw(TypeErrorReadingMessage)
        ELSE Return(errorResponse(
                 IF error.has /\ error.message # "" THEN error.message
                 ELSE "Failed to end email.",
                 INTERNAL_SERVER_ERROR))]

\* the call up to its await: content is prepared, then the arguments of
\* EmailService.sendEmail are evaluated (emailData.email throws when
\* emailData is undefined) and the transport is called
sendEmail_begin(emailData) ==
    IF ~ emailData.obj
    THEN [called |-> FALSE, sent |-> <<>>,
          after |-> sendEmail_catch(TypeErrorReadingEmail)]
    ELSE [called |-> TRUE, sent |-> <<MessageFor(emailData)>>,
          after |-> [logs |-> <<>>, completion |-> Return(NoEnvelope)]]

\* faulty variant: success answered with 200 (OK) instead of Created
sendEmail_resumeOk(o) ==
    IF o.kind = "resolved"
    THEN [logs |-> <<>>,
          completion |-> Return(sendResponse(o.result,
                                             "Email send successfully.", 200))]
    ELSE sendEmail_catch(o.error)

\* the call after its await, given the transport's outcome
sendEmail_resume(o) ==
    IF o.kind = "resolved"
    THEN [logs |-> <<>>,
          completion |-> Return(sendResponse(o.result,
                                             "Email send successfully.",
                                             CREATED))]
    ELSE sendEmail_catch(o.error)

-----------------------------------------------------------------------------
(* Routing: router.use('/send-email', sendEmailRoutes) and                 *)
(* router.route('/').post(sendEmailController.sendEmail)                   *)
(*                  .all(methodNotSupported).                              *)
(* The request validator is not among the handlers of the route.           *)

Methods == {"POST", "GET", "DELETE"}

Urls == {"/send-email", "/send-email?retry=1"}

\* faulty variant: .all(methodNotSupported) registered before .post(...)
RouteStackAllFirst ==
    << [verb |-> "all",  handler |-> "methodNotSupported"],
       [verb |-> "post", handler |-> "sendEmailController.sendEmail"] >>

RouteStack ==
    << [verb |-> "post", handler |-> "sendEmailController.sendEmail"],
       [verb |-> "all",  handler |-> "methodNotSupported"] >>

Matches(layer, m) ==
    layer.verb = "all" \/ (layer.verb = "post" /\ m = "POST")

\* the first handler of the route that matches the request's method
FirstHandler(m) ==
    LET i == CHOOSE k \in 1..Len(RouteStack) :
                 /\ Matches(RouteStack[k], m)
                 /\ \A j \in 1..(k - 1) : ~ Matches(RouteStack[j], m)
    IN  RouteStack[i].handler

-----------------------------------------------------------------------------
(* State.                                                                  *)
(*   pc[r]       where request r is:                                       *)
(*                 "idle"      not yet received                            *)
(*                 "awaiting"  use case suspended at                       *)
(*                             await EmailService.sendEmail(...)           *)
(*                 "returned"  use case returned its envelope; the         *)
(*                             controller is suspended at its await        *)
(*                 "rejected"  use case threw out of its catch block; the  *)
(*                             controller is suspended at its await        *)
(*                 "done"      a handler of the route sent the response    *)
(*                 "faulted"   the controller's function rejected; the     *)
(*                             rejection is asyncErrorHandler's            *)
(*   method, body, url         the request                                 *)
(*   outcome[r]  how the transport call of r settled                       *)
(*   envelope[r] the envelope object of r                                  *)
(*   response[r] the responses sent for r by the handlers of the route     *)
(*   outbox[r]   the messages handed to EmailService.sendEmail for r       *)
(*   logged[r]   the lines passed to loggerService.error for r             *)
(*   vbody, vfield, vschema   a value under validation and the results of  *)
(*               emailField and of sendEmailSchema.sendEmail on it         *)

Pending == [done |-> FALSE, errors |-> {}]
Result(errs) == [done |-> TRUE, errors |-> errs]

Accepted(res) == res.done /\ res.errors = {}
Refused(res)  == res.done /\ res.errors # {}

PipelineInit ==
    /\ pc = [r \in Reqs |-> "idle"]
    /\ method = [r \in Reqs |-> "-"]
    /\ body = [r \in Reqs |-> UndefinedBody]
    /\ url = [r \in Reqs |-> "-"]
    /\ outcome = [r \in Reqs |-> NoOutcome]
    /\ envelope = [r \in Reqs |-> NoEnvelope]
    /\ response = [r \in Reqs |-> <<>>]
    /\ outbox = [r \in Reqs |-> <<>>]
    /\ logged = [r \in Reqs |-> <<>>]

Init ==
    /\ PipelineInit
    /\ vbody = UndefinedBody
    /\ vfield = Pending
    /\ vschema = Pending

validationVars == <<vbody, vfield, vschema>>
pipelineVars == <<pc, method, body, url, outcome, envelope, response,
                  outbox, logged>>

\* pc and envelope of r once the use case has completed with c
Completed(r, c) ==
    /\ pc' = [pc EXCEPT ![r] = IF c.kind = "return" THEN "returned"
                               ELSE "rejected"]
    /\ envelope' = [envelope EXCEPT ![r] = c.envelope]

\* request r arrives with method m, body b and URL u
Arrives(r, m, b, u) ==
    /\ pc[r] = "idle"
    /\ method' = [method EXCEPT ![r] = m]
    /\ body' = [body EXCEPT ![r] = b]
    /\ url' = [url EXCEPT ![r] = u]

-----------------------------------------------------------------------------
(* Actions.  A request is dispatched to the first matching handler of the  *)
(* route in the turn of the event loop in which it arrives.                *)

\* the route hands the request to methodNotSupported
MethodNotSupported(r, m, b, u) ==
    /\ Arrives(r, m, b, u)
    /\ FirstHandler(m) = "methodNotSupported"
    /\ pc' = [pc EXCEPT ![r] = "done"]
    /\ response' = [response EXCEPT ![r] =
           Append(@, [by |-> "methodNotSupported", code |-> 0,
                      payload |-> NoEnvelope])]
    /\ UNCHANGED <<outcome, envelope, outbox, logged>>
    /\ UNCHANGED validationVars

\* the route hands the request to the controller, which calls the use case
\* with req.body; the use case runs to its await, or to its end when it
\* throws before it
ControllerCall(r, m, b, u) ==
    /\ Arrives(r, m, b, u)
    /\ FirstHandler(m) = "sendEmailController.sendEmail"
    /\ LET s == sendEmail_begin(b)
       IN  /\ outbox' = [outbox EXCEPT ![r] = @ \o s.sent]
           /\ logged' = [logged EXCEPT ![r] = @ \o s.after.logs]
           /\ IF s.called
              THEN /\ pc' = [pc EXCEPT ![r] = "awaiting"]
                   /\ UNCHANGED envelope
              ELSE Completed(r, s.after.completion)
    /\ UNCHANGED <<outcome, response>>
    /\ UNCHANGED validationVars

\* faulty variant: the catch block sends the message a second time
TransportSettleResend(r, o) ==
    /\ pc[r] = "awaiting"
    /\ outcome' = [outcome EXCEPT ![r] = o]
    /\ LET a == sendEmail_resume(o)
       IN  /\ logged' = [logged EXCEPT ![r] = @ \o a.logs]
           /\ Completed(r, a.completion)
    /\ outbox' = [outbox EXCEPT ![r] =
                     IF o.kind = "rejected" THEN @ \o <<MessageFor(body[r])>>
                     ELSE @]
    /\ UNCHANGED <<method, body, url, response>>
    /\ UNCHANGED validationVars

\* the transport call of r settles with outcome o and the use case resumes:
\* it builds the success envelope, or runs its catch block
TransportSettle(r, o) ==
    /\ pc[r] = "awaiting"
    /\ outcome' = [outcome EXCEPT ![r] = o]
    /\ LET a == sendEmail_resume(o)
       IN  /\ logged' = [logged EXCEPT ![r] = @ \o a.logs]
           /\ Completed(r, a.completion)
    /\ UNCHANGED <<method, body, url, response, outbox>>
    /\ UNCHANGED validationVars

\* the controller resumes with the envelope: it sets route and sends it
ControllerRespond(r) ==
    /\ pc[r] = "returned"
    /\ LET emailData == [envelope[r] EXCEPT !.route = Some(url[r])]
       IN  /\ envelope' = [envelope EXCEPT ![r] = emailData]
           /\ response' = [response EXCEPT ![r] =
                  Append(@, [by |-> "sendEmailController.sendEmail",
                             code |-> emailData.status,
                             payload |-> emailData])]
    /\ pc' = [pc EXCEPT ![r] = "done"]
    /\ UNCHANGED <<method, body, url, outcome, outbox, logged>>
    /\ UNCHANGED validationVars

\* the controller's await throws what the use case threw: the lines after
\* it do not run
ControllerFault(r) ==
    /\ pc[r] = "rejected"
    /\ pc' = [pc EXCEPT ![r] = "faulted"]
    /\ UNCHANGED <<method, body, url, outcome, envelope, response, outbox,
                   logged>>
    /\ UNCHANGED validationVars

Next ==
    \E r \in Reqs :
        \/ \E m \in Methods, b \in ReqBodies, u \in Urls :
               MethodNotSupported(r, m, b, u)
        \/ \E m \in Methods, b \in ReqBodies, u \in Urls :
               ControllerCall(r, m, b, u)
        \/ \E o \in Outcomes : TransportSettle(r, o)
        \/ ControllerRespond(r)
        \/ ControllerFault(r)

Spec == Init /\ [][Next]_vars

-----------------------------------------------------------------------------
(* The validators applied to a value: emailField on its own, as in         *)
(* emailField.validate(value), and the body schema.                        *)

InitValidate ==
    /\ PipelineInit
    /\ vbody \in ValBodies
    /\ vfield = Pending
    /\ vschema = Pending

ValidateEmailField ==
    /\ ~ vfield.done
    /\ vfield' = Result(emailField(vbody.email, TRUE))
    /\ UNCHANGED <<vbody, vschema>>
    /\ UNCHANGED pipelineVars

ValidateBody ==
    /\ ~ vschema.done
    /\ vschema' = Result(sendEmailSchema(vbody))
    /\ UNCHANGED <<vbody, vfield>>
    /\ UNCHANGED pipelineVars

NextValidate == ValidateEmailField \/ ValidateBody

SpecValidate == InitValidate /\ [][NextValidate]_vars

-----------------------------------------------------------------------------
(* Properties.                                                             *)

Controller == "sendEmailController.sendEmail"

\* the use case of r has run to its end and returned an envelope
UseCaseReturned(r) == pc[r] \in {"returned", "done"} /\ method[r] = "POST"

\* the use case of r was entered
UseCaseInvoked(r) ==
    pc[r] \in {"awaiting", "returned", "rejected", "faulted"}
    \/ (pc[r] = "done" /\ method[r] = "POST")
    \/ outbox[r] # <<>> \/ logged[r] # <<>>

\* the HTML rendered from the payload p alone
RenderedFrom(p) ==
    <<"html", <<"pageTitle", IF p.subject.t = "undefined" THEN Str(<<>>)
                             ELSE p.subject>>,
              <<"preheaderText", IF p.subject.t = "undefined" THEN Str(<<>>)
                                 ELSE p.subject>>,
              <<"heroSection", IF p.subject.t = "undefined" THEN Str(<<>>)
                               ELSE p.subject>>,
              <<"mainSection", IF p.subject.t = "undefined" THEN Str(<<>>)
                               ELSE p.subject>>,
              <<"footerContent", IF p.subject.t = "undefined" THEN Str(<<>>)
                                 ELSE p.subject>> >>

\* C1: when the transport call of a request resolved with delivery result
\* d, the use case returns the envelope with status 201, message
\* "Email send successfully." and data d, and the error logger is not
\* called for that request.
C1_SuccessEnvelope ==
    \A r \in Reqs :
        outcome[r].kind = "resolved" =>
            /\ UseCaseReturned(r)
            /\ envelope[r].status = 201
            /\ envelope[r].message = "Email send successfully."
            /\ envelope[r].data = Some(outcome[r].result)
            /\ logged[r] = <<>>

C1_Witness ==
    \E r \in Reqs :
        /\ outcome[r] = Resolved("<id-2>")
        /\ pc[r] = "returned"
        /\ envelope[r].data = Some("<id-2>")

\* C2: when the transport call of a request failed with an error value
\* (not null, not undefined), the use case returns an error envelope with
\* status 500 whose message is the error's message when it has a non-empty
\* one and "Failed to end email." otherwise; the failure is logged exactly
\* once and the envelope carries no data (it is no success envelope).
C2_ErrorEnvelope ==
    \A r \in Reqs :
        (outcome[r].kind = "rejected" /\ ~ Nullish(outcome[r].error)) =>
            LET e == outcome[r].error
            IN  /\ UseCaseReturned(r)
                /\ envelope[r].status = 500
                /\ (e.has /\ e.message # "") => envelope[r].message = e.message
                /\ (~ e.has \/ e.message = "") =>
                       envelope[r].message = "Failed to end email."
                /\ e = ErrorWith("connection refused") =>
                       envelope[r].message = "connection refused"
                /\ envelope[r].data = None
                /\ Len(logged[r]) = 1

C2_Witness ==
    \E r, q \in Reqs :
        /\ outcome[r] = Rejected(ErrorWith("connection refused"))
        /\ envelope[r].message = "connection refused"
        /\ outcome[q] = Rejected(ObjectNoMessage)
        /\ envelope[q].message = "Failed to end email."
        /\ Len(logged[r]) = 1 /\ Len(logged[q]) = 1

\* C3: the use case never propagates a fault: whatever the payload and
\* whatever value the transport rejects with (null and undefined
\* included), the call ends by returning an envelope of status 201 or 500.
C3_NeverPropagates ==
    \A r \in Reqs :
        /\ pc[r] \notin {"rejected", "faulted"}
        /\ UseCaseReturned(r) => envelope[r].status \in {201, 500}

\* C4: a POST whose body violates the subject+email schema never reaches
\* the use case or the transport.
C4_ValidationShortCircuits ==
    \A r \in Reqs :
        (method[r] = "POST" /\ body[r].obj /\ sendEmailSchema(body[r]) # {}) =>
            /\ ~ UseCaseInvoked(r)
            /\ outbox[r] = <<>>

\* C5: a request whose method is not POST is answered by the
\* method-not-supported handler and neither the use case nor the transport
\* is invoked for it; a POST is handed to the controller, every response
\* sent for it by the route is the controller's, and the
\* method-not-supported handler is not reached.
C5_MethodRouting ==
    \A r \in Reqs :
        pc[r] # "idle" =>
            IF method[r] # "POST"
            THEN /\ pc[r] = "done"
                 /\ Len(response[r]) = 1
                 /\ response[r][1].by = "methodNotSupported"
                 /\ ~ UseCaseInvoked(r)
                 /\ outbox[r] = <<>>
                 /\ outcome[r] = NoOutcome
            ELSE /\ UseCaseInvoked(r)
                 /\ \A i \in 1..Len(response[r]) : response[r][i].by = Controller
                 /\ pc[r] = "done" =>
                        Len(response[r]) = 1 /\ response[r][1].by = Controller

C5_Witness ==
    \E r, q \in Reqs :
        /\ method[r] = "DELETE" /\ pc[r] = "done"
        /\ response[r][1].by = "methodNotSupported"
        /\ method[q] = "POST" /\ pc[q] = "done"
        /\ response[q][1].by = Controller

\* C6: with several requests in flight, the message handed to the
\* transport for a request (recipient, subject, HTML) is built from that
\* request's payload alone, and the envelope returned for it (status,
\* message, data, route) from that request's transport outcome and URL
\* alone.
C6_NoInterleaving ==
    \A r \in Reqs :
        /\ \A i \in 1..Len(outbox[r]) :
              /\ outbox[r][i].to = body[r].email
              /\ outbox[r][i].subject = body[r].subject
              /\ outbox[r][i].html = RenderedFrom(body[r])
        /\ UseCaseReturned(r) =>
              /\ outcome[r].kind = "resolved" =>
                    /\ envelope[r].status = 201
                    /\ envelope[r].data = Some(outcome[r].result)
              /\ outcome[r].kind = "rejected" =>
                    /\ envelope[r].status = 500
                    /\ envelope[r].data = None
                    /\ outcome[r].error.message # "" =>
                           envelope[r].message = outcome[r].error.message
              /\ outcome[r].kind = "none" =>
                    /\ ~ body[r].obj
                    /\ envelope[r].status = 500
              /\ envelope[r].route =
                     IF pc[r] = "done" THEN Some(url[r]) ELSE None
        /\ \A i \in 1..Len(response[r]) :
              response[r][i].by = Controller =>
                  response[r][i].payload = envelope[r]

C6_Witness ==
    \E r, q \in Reqs :
        /\ r # q
        /\ pc[r] = "awaiting" /\ pc[q] = "done"
        /\ outbox[r] # <<>> /\ outbox[q] # <<>>
        /\ body[r].subject # body[q].subject
        /\ url[r] # url[q]
        /\ outcome[q].kind = "resolved"

\* C7: the transport is invoked at most once per request, with the HTML
\* that content preparation and rendering produced for that request, and a
\* transport failure is followed by no second send.
C7_NoRetry ==
    \A r \in Reqs :
        /\ Len(outbox[r]) <= 1
        /\ \A i \in 1..Len(outbox[r]) : outbox[r][i].html = RenderedFrom(body[r])
        /\ outcome[r].kind = "rejected" =>
              /\ Len(outbox[r]) = 1
              /\ pc[r] \in {"returned", "rejected", "done", "faulted"}

C7_Witness ==
    \E r \in Reqs :
        /\ outcome[r] = Rejected(ErrorWith("connection refused"))
        /\ pc[r] = "done"
        /\ Len(outbox[r]) = 1

\* an address that satisfies every rule of emailField other than the deny
\* list: length within the limits, Joi's address check, patterns.EMAIL
OtherwiseValid(s) ==
    /\ Len(s) >= EMAIL_MIN /\ Len(s) <= EMAIL_MAX
    /\ s = Trim(s)
    /\ JoiEmail(s)
    /\ EMAIL(s)

HasDenyWord(s) == \E w \in DenyWords : Contains(s, w)

C9_StrictRequired ==
    vschema.done =>
        /\ Accepted(vschema) =>
              /\ vbody.subject.t # "undefined"
              /\ vbody.email.t # "undefined"
              /\ vbody.extra.t = "undefined"
        /\ vbody.extra.t # "undefined" => "object.unknown" \in vschema.errors
        /\ vbody.subject.t = "undefined" => "any.required" \in vschema.errors
        /\ vbody.email.t = "undefined" => "any.required" \in vschema.errors
        /\ vbody = Body(Str(s_weeklyUpdate), Str(userAtExample), Undefined) =>
              Accepted(vschema)

C9_Witness ==
    /\ vbody = Body(Str(s_weeklyUpdate), Str(userAtExample), Num(<<"1">>))
    /\ vschema.done
    /\ vschema.errors = {"object.unknown"}

\* the envelope the use case built for r, from r's own payload and outcome
BuiltEnvelope(r) ==
    IF body[r].obj THEN sendEmail_resume(outcome[r]).completion.envelope
    ELSE sendEmail_begin(body[r]).after.completion.envelope

\* C10: for every POST the controller has finished handling, exactly one
\* response was sent, after the use case returned its envelope; its status
\* code is the envelope's status (201 or 500), its body is the envelope,
\* and the envelope differs from the one the use case built in route only,
\* which is the request's original URL.
C10_OneResponsePerPost ==
    \A r \in Reqs :
        (method[r] = "POST" /\ pc[r] \in {"done", "faulted"}) =>
            /\ Len(response[r]) = 1
            /\ response[r][1].by = Controller
            /\ response[r][1].code = envelope[r].status
            /\ response[r][1].code \in {201, 500}
            /\ response[r][1].payload = envelope[r]
            /\ envelope[r].route = Some(url[r])
            /\ [envelope[r] EXCEPT !.route = None] = BuiltEnvelope(r)

====
